---- MODULE Spec2Model ----
(***************************************************************************)
(* A model of the A/B testing analysis engine, src/ab_analyzer.py:         *)
(* ABTestAnalyzer with its "last result" slot (self.results) and its four  *)
(* operations analyze_proportions, analyze_continuous,                     *)
(* sample_size_calculator and get_summary_report.                          *)
(*                                                                         *)
(* Floating point numbers are modelled as decimal fixed point numbers with *)
(* six fractional digits (an integer v stands for v / 10^6) together with  *)
(* the IEEE specials nan, +inf and -inf, which numpy produces where plain  *)
(* Python would raise.  Every arithmetic step of the source is one         *)
(* rounding step of the model.  All intermediate integers stay below 2^31. *)
(***************************************************************************)
EXTENDS Integers, Sequences, FiniteSets, TLC

(***************************************************************************)
(* Bounds of the model.                                                    *)
(***************************************************************************)
\* visitors per group range over 0..MaxVisitors in the pure-function runs
MaxVisitors == 4
\* continuous samples have 2..MaxLen observations
MaxLen == 3
\* visitors per group range over 0..EngVisitors in the engine runs
EngVisitors == 1
\* the minimum detectable effects are the multiples of 0.05 up to this many
MaxEffectSteps == 6

(***************************************************************************)
(* Floats.                                                                 *)
(***************************************************************************)
Scale == 1000 * 1000
MaxInt == (2^30 - 1) * 2 + 1

Floats == [k : {"fin", "nan", "pinf", "ninf"}, v : Int]
Fin(v) == [k |-> "fin", v |-> v]
NaN == [k |-> "nan", v |-> 0]
PInf == [k |-> "pinf", v |-> 0]
NInf == [k |-> "ninf", v |-> 0]
Zero == Fin(0)
One == Fin(Scale)

IsNaN(x) == x.k = "nan"
IsFin(x) == x.k = "fin"
IsInf(x) == x.k \in {"pinf", "ninf"}

AbsInt(n) == IF n < 0 THEN -n ELSE n
SignInt(n) == IF n < 0 THEN -1 ELSE IF n > 0 THEN 1 ELSE 0

\* the sign of a float that is not nan
FSign(x) == CASE x.k = "pinf" -> 1 [] x.k = "ninf" -> -1 [] OTHER -> SignInt(x.v)
SignedInf(s) == IF s < 0 THEN NInf ELSE PInf

\* the position of a non-nan float in the order of the extended reals
FKey(x) == CASE x.k = "pinf" -> MaxInt [] x.k = "ninf" -> -MaxInt [] OTHER -> x.v

\* comparisons: every comparison with nan is false
FLt[x \in Floats, y \in Floats] == ~IsNaN(x) /\ ~IsNaN(y) /\ FKey(x) < FKey(y)
FLe[x \in Floats, y \in Floats] == ~IsNaN(x) /\ ~IsNaN(y) /\ FKey(x) <= FKey(y)
FGt[x \in Floats, y \in Floats] == FLt[y, x]
FEq[x \in Floats, y \in Floats] == ~IsNaN(x) /\ ~IsNaN(y) /\ FKey(x) = FKey(y)

FNeg[x \in Floats] == CASE x.k = "pinf" -> NInf [] x.k = "ninf" -> PInf
             [] x.k = "nan" -> NaN [] OTHER -> Fin(-x.v)
FAbs[x \in Floats] == CASE x.k = "ninf" -> PInf [] x.k = "fin" -> Fin(AbsInt(x.v)) [] OTHER -> x

FAdd[x \in Floats, y \in Floats] ==
    CASE IsNaN(x) \/ IsNaN(y) -> NaN
      [] IsInf(x) /\ IsInf(y) -> IF x.k = y.k THEN x ELSE NaN
      [] IsInf(x) -> x
      [] IsInf(y) -> y
      [] OTHER -> Fin(x.v + y.v)
FSub[x \in Floats, y \in Floats] == FAdd[x, FNeg[y]]

\* round(a * b / 10^6) for a, b >= 0, by limbs of 1000
MulRound[a \in Int, b \in Int] ==
    LET a1 == a \div 1000  a0 == a % 1000
        b1 == b \div 1000  b0 == b % 1000
        mid == a1 * b0 + a0 * b1
    IN a1 * b1 + (mid + (a0 * b0 + 500000) \div 1000) \div 1000

FMul[x \in Floats, y \in Floats] ==
    CASE IsNaN(x) \/ IsNaN(y) -> NaN
      [] IsInf(x) \/ IsInf(y) ->
            IF FSign(x) * FSign(y) = 0 THEN NaN ELSE SignedInf(FSign(x) * FSign(y))
      [] OTHER -> Fin(SignInt(x.v) * SignInt(y.v) * MulRound[AbsInt(x.v), AbsInt(y.v)])

\* round(a * 10^6 / b) for a >= 0, b > 0, by long division
RECURSIVE LongDiv(_, _, _, _)
LongDiv(r, b, k, acc) ==
    IF k = 0 THEN acc + (IF 2 * r >= b THEN 1 ELSE 0)
    ELSE LongDiv((10 * r) % b, b, k - 1, 10 * acc + (10 * r) \div b)
\* (a divisor too large for the long division loses its last digit first)
DivRound[a \in Int, b \in Int] ==
    IF b >= 200000000 THEN DivRound[a \div 10, b \div 10]
    ELSE (a \div b) * Scale + LongDiv(a % b, b, 6, 0)

\* numpy's division: x / 0 is nan or an infinity, never an exception
FDiv[x \in Floats, y \in Floats] ==
    CASE IsNaN(x) \/ IsNaN(y) -> NaN
      [] IsInf(x) /\ IsInf(y) -> NaN
      [] IsInf(x) -> SignedInf(FSign(x) * (IF FSign(y) < 0 THEN -1 ELSE 1))
      [] IsInf(y) -> Zero
      [] y.v = 0 -> IF x.v = 0 THEN NaN ELSE SignedInf(SignInt(x.v))
      [] OTHER -> Fin(SignInt(x.v) * SignInt(y.v) * DivRound[AbsInt(x.v), AbsInt(y.v)])

\* Python's true division of two integers, b # 0
IntDiv[a \in Int, b \in Int] == Fin(SignInt(a) * SignInt(b) * DivRound[AbsInt(a), AbsInt(b)])
FromInt(n) == Fin(n * Scale)

\* floor(sqrt(n)) for an integer n >= 0
ISqrt[n \in Int] ==
    IF n < 2 THEN n
    ELSE LET s == 2 * ISqrt[n \div 4]
         IN IF (s + 1) * (s + 1) <= n THEN s + 1 ELSE s

\* k more decimal digits of a square root, by the long-hand method: root is
\* the root so far and rem what is left of the radicand
RECURSIVE SqrtDigits(_, _, _)
SqrtDigits(root, rem, k) ==
    IF k = 0 THEN root
    ELSE LET cur == 100 * rem
             x == CHOOSE d \in 0..9 :
                     /\ (20 * root + d) * d <= cur
                     /\ (d = 9 \/ (20 * root + d + 1) * (d + 1) > cur)
         IN SqrtDigits(10 * root + x, cur - (20 * root + x) * x, k - 1)

\* np.sqrt: nan for a negative argument
FSqrt[x \in Floats] ==
    CASE IsNaN(x) -> NaN
      [] x.k = "ninf" -> NaN
      [] x.k = "pinf" -> PInf
      [] x.v < 0 -> NaN
      [] OTHER -> LET s == ISqrt[x.v] IN Fin(SqrtDigits(s, x.v - s * s, 3))

FSquare[x \in Floats] == FMul[x, x]

(***************************************************************************)
(* The standard normal distribution (scipy.stats.norm).                    *)
(***************************************************************************)
\* norm.sf at 0.00, 0.01, ..., 6.00, in units of 10^-6
NormSfTable == <<
    500000, 496011, 492022, 488034, 484047, 480061, 476078, 472097, 468119, 464144, 460172, 456205,
    452242, 448283, 444330, 440382, 436441, 432505, 428576, 424655, 420740, 416834, 412936, 409046,
    405165, 401294, 397432, 393580, 389739, 385908, 382089, 378280, 374484, 370700, 366928, 363169,
    359424, 355691, 351973, 348268, 344578, 340903, 337243, 333598, 329969, 326355, 322758, 319178,
    315614, 312067, 308538, 305026, 301532, 298056, 294599, 291160, 287740, 284339, 280957, 277595,
    274253, 270931, 267629, 264347, 261086, 257846, 254627, 251429, 248252, 245097, 241964, 238852,
    235762, 232695, 229650, 226627, 223627, 220650, 217695, 214764, 211855, 208970, 206108, 203269,
    200454, 197663, 194895, 192150, 189430, 186733, 184060, 181411, 178786, 176186, 173609, 171056,
    168528, 166023, 163543, 161087, 158655, 156248, 153864, 151505, 149170, 146859, 144572, 142310,
    140071, 137857, 135666, 133500, 131357, 129238, 127143, 125072, 123024, 121000, 119000, 117023,
    115070, 113139, 111232, 109349, 107488, 105650, 103835, 102042, 100273, 98525, 96800, 95098,
    93418, 91759, 90123, 88508, 86915, 85343, 83793, 82264, 80757, 79270, 77804, 76359,
    74934, 73529, 72145, 70781, 69437, 68112, 66807, 65522, 64255, 63008, 61780, 60571,
    59380, 58208, 57053, 55917, 54799, 53699, 52616, 51551, 50503, 49471, 48457, 47460,
    46479, 45514, 44565, 43633, 42716, 41815, 40930, 40059, 39204, 38364, 37538, 36727,
    35930, 35148, 34380, 33625, 32884, 32157, 31443, 30742, 30054, 29379, 28717, 28067,
    27429, 26803, 26190, 25588, 24998, 24419, 23852, 23295, 22750, 22216, 21692, 21178,
    20675, 20182, 19699, 19226, 18763, 18309, 17864, 17429, 17003, 16586, 16177, 15778,
    15386, 15003, 14629, 14262, 13903, 13553, 13209, 12874, 12545, 12224, 11911, 11604,
    11304, 11011, 10724, 10444, 10170, 9903, 9642, 9387, 9137, 8894, 8656, 8424,
    8198, 7976, 7760, 7549, 7344, 7143, 6947, 6756, 6569, 6387, 6210, 6037,
    5868, 5703, 5543, 5386, 5234, 5085, 4940, 4799, 4661, 4527, 4396, 4269,
    4145, 4025, 3907, 3793, 3681, 3573, 3467, 3364, 3264, 3167, 3072, 2980,
    2890, 2803, 2718, 2635, 2555, 2477, 2401, 2327, 2256, 2186, 2118, 2052,
    1988, 1926, 1866, 1807, 1750, 1695, 1641, 1589, 1538, 1489, 1441, 1395,
    1350, 1306, 1264, 1223, 1183, 1144, 1107, 1070, 1035, 1001, 968, 935,
    904, 874, 845, 816, 789, 762, 736, 711, 687, 664, 641, 619,
    598, 577, 557, 538, 519, 501, 483, 466, 450, 434, 419, 404,
    390, 376, 362, 349, 337, 325, 313, 302, 291, 280, 270, 260,
    251, 242, 233, 224, 216, 208, 200, 193, 185, 178, 172, 165,
    159, 153, 147, 142, 136, 131, 126, 121, 117, 112, 108, 104,
    100, 96, 92, 88, 85, 82, 78, 75, 72, 69, 67, 64,
    62, 59, 57, 54, 52, 50, 48, 46, 44, 42, 41, 39,
    37, 36, 34, 33, 32, 30, 29, 28, 27, 26, 25, 24,
    23, 22, 21, 20, 19, 18, 17, 17, 16, 15, 15, 14,
    13, 13, 12, 12, 11, 11, 10, 10, 9, 9, 9, 8,
    8, 7, 7, 7, 7, 6, 6, 6, 5, 5, 5, 5,
    4, 4, 4, 4, 4, 4, 3, 3, 3, 3, 3, 3,
    3, 2, 2, 2, 2, 2, 2, 2, 2, 2, 2, 2,
    1, 1, 1, 1, 1, 1, 1, 1, 1, 1, 1, 1,
    1, 1, 1, 1, 1, 1, 1, 1, 1, 1, 0, 0,
    0, 0, 0, 0, 0, 0, 0, 0, 0, 0, 0, 0,
    0, 0, 0, 0, 0, 0, 0, 0, 0, 0, 0, 0,
    0, 0, 0, 0, 0, 0, 0, 0, 0, 0, 0, 0,
    0, 0, 0, 0, 0, 0, 0, 0, 0, 0, 0, 0,
    0, 0, 0, 0, 0, 0, 0, 0, 0, 0, 0, 0,
    0, 0, 0, 0, 0, 0, 0, 0, 0, 0, 0, 0,
    0, 0, 0, 0, 0, 0, 0, 0, 0, 0, 0, 0,
    0, 0, 0, 0, 0, 0, 0, 0, 0, 0, 0, 0,
    0, 0, 0, 0, 0, 0, 0, 0, 0, 0, 0, 0,
    0 >>
NormTableStep == Scale \div 100

\* norm.sf(d / 10^6) for an integer d >= 0, interpolated in the table
NormSfInt[d \in Int] ==
    LET i == d \div NormTableStep
        f == d % NormTableStep
    IN IF i >= Len(NormSfTable) - 1 THEN 0
       ELSE LET lo == NormSfTable[i + 1]
                hi == NormSfTable[i + 2]
            IN lo - ((lo - hi) * f + NormTableStep \div 2) \div NormTableStep

norm_sf[x \in Floats] ==
    CASE IsNaN(x) -> NaN
      [] x.k = "pinf" -> Zero
      [] x.k = "ninf" -> One
      [] x.v >= 0 -> Fin(NormSfInt[x.v])
      [] OTHER -> Fin(Scale - NormSfInt[-x.v])

\* the least d in lo..hi with NormSfInt(d) <= target (NormSfInt decreases)
RECURSIVE NormBisect(_, _, _)
NormBisect(target, lo, hi) ==
    IF lo >= hi THEN lo
    ELSE LET mid == (lo + hi) \div 2
         IN IF NormSfInt[mid] <= target THEN NormBisect(target, lo, mid)
            ELSE NormBisect(target, mid + 1, hi)

\* norm.ppf(q): the inverse of the distribution function
norm_ppf[q \in Floats] ==
    CASE ~IsFin(q) -> NaN
      [] q.v < 0 \/ q.v > Scale -> NaN
      [] q.v = 0 -> NInf
      [] q.v = Scale -> PInf
      [] q.v >= Scale \div 2 ->
            Fin(NormBisect(Scale - q.v, 0, (Len(NormSfTable) - 1) * NormTableStep))
      [] OTHER ->
            Fin(-NormBisect(q.v, 0, (Len(NormSfTable) - 1) * NormTableStep))

(***************************************************************************)
(* Student's t distribution (scipy.stats.t), for a whole number of degrees *)
(* of freedom, by its closed form: with theta = arctan(t / sqrt(df)),      *)
(*   P(|T| <= t) = sin(theta) * (1 + 1/2 cos^2 + 1*3/(2*4) cos^4 + ...)    *)
(* for an even df (terms up to cos^(df-2)), and                            *)
(*   P(|T| <= t) = 2/pi * (theta + sin cos (1 + 2/3 cos^2 + ...))          *)
(* for an odd df (terms up to cos^(df-3); 2/pi * theta for df = 1).        *)
(***************************************************************************)
\* arctan at 0.000, 0.005, ..., 1.000, in units of 10^-6
AtanTable == <<
    0, 5000, 10000, 14999, 19997, 24995, 29991, 34986, 39979, 44970, 49958, 54945,
    59928, 64909, 69886, 74860, 79830, 84796, 89758, 94716, 99669, 104617, 109560, 114497,
    119429, 124355, 129275, 134189, 139096, 143996, 148890, 153776, 158655, 163527, 168390, 173246,
    178093, 182932, 187762, 192583, 197396, 202199, 206992, 211776, 216550, 221314, 226068, 230812,
    235545, 240267, 244979, 249679, 254368, 259046, 263712, 268366, 273009, 277639, 282257, 286863,
    291457, 296038, 300606, 305161, 309703, 314232, 318748, 323250, 327739, 332214, 336675, 341122,
    345556, 349975, 354380, 358771, 363147, 367509, 371856, 376189, 380506, 384809, 389097, 393370,
    397628, 401871, 406098, 410310, 414507, 418688, 422854, 427004, 431139, 435258, 439361, 443448,
    447520, 451576, 455616, 459640, 463648, 467640, 471616, 475575, 479519, 483447, 487359, 491254,
    495133, 498996, 502843, 506674, 510488, 514287, 518069, 521834, 525584, 529317, 533034, 536735,
    540420, 544088, 547740, 551376, 554996, 558599, 562187, 565758, 569313, 572852, 576375, 579882,
    583373, 586848, 590307, 593750, 597177, 600588, 603983, 607362, 610726, 614074, 617406, 620722,
    624023, 627308, 630578, 633832, 637070, 640293, 643501, 646693, 649870, 653032, 656179, 659310,
    662426, 665527, 668614, 671685, 674741, 677782, 680809, 683821, 686818, 689800, 692768, 695721,
    698660, 701584, 704494, 707390, 710271, 713138, 715991, 718830, 721655, 724466, 727263, 730046,
    732815, 735571, 738313, 741041, 743756, 746457, 749145, 751819, 754480, 757128, 759763, 762384,
    764993, 767588, 770171, 772741, 775297, 777842, 780373, 782892, 785398 >>
AtanTableStep == Scale \div 200
Pi == Fin(3141593)

\* arctan(d / 10^6) for an integer 0 <= d <= 10^6
AtanInt[d \in Int] ==
    LET i == d \div AtanTableStep
        f == d % AtanTableStep
    IN IF i >= Len(AtanTable) - 1 THEN AtanTable[Len(AtanTable)]
       ELSE LET lo == AtanTable[i + 1]
                hi == AtanTable[i + 2]
            IN lo + ((hi - lo) * f + AtanTableStep \div 2) \div AtanTableStep

\* the sum 1 + c_1 x + c_2 x^2 + ... + c_kmax x^kmax of the closed form, with
\* c_k / c_(k-1) = (2k-1)/(2k) for an even df and (2k)/(2k+1) for an odd df
RECURSIVE TSeries(_, _, _, _, _)
TSeries(k, kmax, term, cos2, even) ==
    IF k > kmax THEN Zero
    ELSE LET ratio == IF even THEN IntDiv[2 * k - 1, 2 * k]
                      ELSE IntDiv[2 * k, 2 * k + 1]
             next == FMul[FMul[term, ratio], cos2]
         IN FAdd[next, TSeries(k + 1, kmax, next, cos2, even)]

\* P(|T| > t) from sin(theta), cos(theta) and theta
TFromAngle[sin \in Floats, cos \in Floats, theta \in Floats, df \in Int] ==
    LET even == df % 2 = 0
        kmax == IF even THEN df \div 2 - 1 ELSE (df - 3) \div 2
        series == FAdd[One, TSeries(1, kmax, One, FSquare[cos], even)]
        inside == CASE even -> FMul[sin, series]
                    [] df = 1 -> FDiv[FMul[FromInt(2), theta], Pi]
                    [] OTHER -> FDiv[FMul[FromInt(2),
                                         FAdd[theta, FMul[FMul[sin, cos], series]]], Pi]
    IN IF FLt[One, inside] THEN Zero ELSE FSub[One, inside]

\* q = tan(theta) when ~big and q = 1 / tan(theta) when big; h = sqrt(1 + q^2)
TFromTangent[q \in Floats, h \in Floats, big \in BOOLEAN, df \in Int] ==
    TFromAngle[IF big THEN FDiv[One, h] ELSE FDiv[q, h],
               IF big THEN FDiv[q, h] ELSE FDiv[One, h],
               IF big THEN FSub[FDiv[Pi, FromInt(2)], Fin(AtanInt[q.v])]
               ELSE Fin(AtanInt[q.v]),
               df]

TFromReduced[q \in Floats, big \in BOOLEAN, df \in Int] ==
    TFromTangent[q, FSqrt[FAdd[One, FSquare[q]]], big, df]

\* r = t / sqrt(df) = tan(theta); a ratio above 1 is inverted
TFromRatio[r \in Floats, df \in Int] ==
    TFromReduced[IF FGt[r, One] THEN FDiv[One, r] ELSE r, FGt[r, One], df]

\* P(|T| > t) for finite t >= 0 and df >= 1
TTwoSided[t \in Floats, df \in Int] == TFromRatio[FDiv[t, FSqrt[FromInt(df)]], df]

\* 2 * t.sf(|t|, df): the two-sided p-value of a t statistic
t_sf2[t \in Floats, df \in Int] ==
    CASE IsNaN(t) -> NaN
      [] IsInf(t) -> Zero
      [] OTHER -> TTwoSided[FAbs[t], df]

\* the least d in lo..hi with P(|T| > d / 10^6) <= target
RECURSIVE TBisect(_, _, _, _)
TBisect(target, df, lo, hi) ==
    IF lo >= hi THEN lo
    ELSE LET mid == lo + (hi - lo) \div 2
         IN IF TTwoSided[Fin(mid), df].v <= target THEN TBisect(target, df, lo, mid)
            ELSE TBisect(target, df, mid + 1, hi)
TQuantileRange == 200 * Scale

\* the upper quantiles computed once: TQuantileTable[j][df] is the t with
\* P(|T| > t) = TQuantileTails[j] for df degrees of freedom
TQuantileTails == <<10000, 50000, 100000>>
TQuantileMaxDf == 2 * (MaxLen + 1)
RECURSIVE TQuantileRow(_, _)
TQuantileRow(tail, df) ==
    IF df = 0 THEN <<>>
    ELSE Append(TQuantileRow(tail, df - 1), TBisect(tail, df, 0, TQuantileRange))
TQuantileTable ==
    <<TQuantileRow(TQuantileTails[1], TQuantileMaxDf),
      TQuantileRow(TQuantileTails[2], TQuantileMaxDf),
      TQuantileRow(TQuantileTails[3], TQuantileMaxDf)>>

\* t.ppf(q, df) for q >= 1/2: the t with P(T <= t) = q
t_ppf[q \in Floats, df \in Int] ==
    CASE ~IsFin(q) -> NaN
      [] q.v < Scale \div 2 \/ q.v > Scale -> NaN
      [] q.v = Scale -> PInf
      [] df <= TQuantileMaxDf
            /\ \E j \in 1..Len(TQuantileTails) : TQuantileTails[j] = 2 * (Scale - q.v) ->
            LET j == CHOOSE j \in 1..Len(TQuantileTails) :
                        TQuantileTails[j] = 2 * (Scale - q.v)
            IN Fin(TQuantileTable[j][df])
      [] OTHER -> Fin(TBisect(2 * (Scale - q.v), df, 0, TQuantileRange))

(***************************************************************************)
(* Formatting (the f-strings of the interpretation and of the report).     *)
(***************************************************************************)
Pow10(k) == 10 ^ k

\* f"{x:.<digits>f}": x rounded to digits <= 6 decimals; nan, inf and the
\* sign are printed as such
Fmt[x \in Floats, digits \in Int] ==
    IF IsFin(x)
    THEN [text |-> "number", neg |-> x.v < 0, digits |-> digits,
          units |-> (AbsInt(x.v) + Pow10(6 - digits) \div 2) \div Pow10(6 - digits)]
    ELSE [text |-> x.k, neg |-> FALSE, digits |-> digits, units |-> 0]

\* f"{x*100:.2f}"
FmtPercent[x \in Floats] == Fmt[FMul[x, FromInt(100)], 2]

(***************************************************************************)
(* statsmodels: proportions_ztest and ttest_power.                         *)
(***************************************************************************)
\* _zstat_generic2: the statistic and its two-sided p-value
zstat_generic2[value \in Floats, std \in Floats] ==
    [zstat |-> FDiv[value, std],
     pvalue |-> FMul[norm_sf[FAbs[FDiv[value, std]]], FromInt(2)]]

\* proportions_ztest with alternative='larger': the p-value is one-sided
proportions_ztest_larger(count0, count1, nobs0, nobs1) ==
    LET diff == FSub[IntDiv[count0, nobs0], IntDiv[count1, nobs1]]
        p_pooled == IntDiv[count0 + count1, nobs0 + nobs1]
        nobs_fact == FAdd[IntDiv[1, nobs0], IntDiv[1, nobs1]]
        std_diff == FSqrt[FMul[FMul[p_pooled, FSub[One, p_pooled]], nobs_fact]]
    IN [zstat |-> FDiv[diff, std_diff], pvalue |-> norm_sf[FDiv[diff, std_diff]]]

\* proportions_ztest(counts, nobs) for two samples: the statistic is
\* (counts[0]/nobs[0] - counts[1]/nobs[1]) / std_diff and the p-value is
\* two-sided; numpy arithmetic throughout
proportions_ztest(count0, count1, nobs0, nobs1) ==
    LET prop0 == IntDiv[count0, nobs0]
        prop1 == IntDiv[count1, nobs1]
        diff == FSub[prop0, prop1]
        p_pooled == IntDiv[count0 + count1, nobs0 + nobs1]
        nobs_fact == FAdd[IntDiv[1, nobs0], IntDiv[1, nobs1]]
        var_ == FMul[FMul[p_pooled, FSub[One, p_pooled]], nobs_fact]
        std_diff == FSqrt[var_]
    IN zstat_generic2[diff, std_diff]

\* ttest_power(effect_size, nobs, alpha, alternative='two-sided'): the power
\* is a value of the noncentral t distribution, kept as the uninterpreted
\* term of its arguments; a nan effect size gives nan
ttest_power(effect_size, nobs, alpha) ==
    IF IsNaN(effect_size) THEN [k |-> "nan", v |-> 0, nobs |-> 0, alpha |-> 0]
    ELSE [k |-> "ttest_power", v |-> FKey(effect_size), nobs |-> nobs, alpha |-> alpha.v]

\* f"{power:.3f}"
FmtPower(power) ==
    [text |-> power.k, digits |-> 3, v |-> power.v, nobs |-> power.nobs, alpha |-> power.alpha]

(***************************************************************************)
(* ABTestAnalyzer.analyze_proportions                                      *)
(***************************************************************************)
NoResult == [kind |-> "empty"]

\* the validation with `< 0` for `<= 0` on the visitor counts
prop_validation_zero_visitors(control_conversions, control_visitors, test_conversions, test_visitors, alpha) ==
    CASE control_visitors < 0 \/ test_visitors < 0 ->
            "Visitor counts must be positive"
      [] control_conversions > control_visitors
            \/ test_conversions > test_visitors ->
            "Conversions cannot exceed visitors"
      [] ~(FLt[Zero, alpha] /\ FLt[alpha, One]) ->
            "Alpha must be between 0 and 1"
      [] OTHER -> ""

\* lines 40-45: the message of the ValueError raised, or "" when the input
\* passes
prop_validation(control_conversions, control_visitors, test_conversions, test_visitors, alpha) ==
    CASE control_visitors <= 0 \/ test_visitors <= 0 ->
            "Visitor counts must be positive"
      [] control_conversions > control_visitors
            \/ test_conversions > test_visitors ->
            "Conversions cannot exceed visitors"
      [] ~(FLt[Zero, alpha] /\ FLt[alpha, One]) ->
            "Alpha must be between 0 and 1"
      [] OTHER -> ""

prop_pooled_rate(control_conversions, control_visitors, test_conversions, test_visitors) ==
    IntDiv[control_conversions + test_conversions,
           control_visitors + test_visitors]

\* the standard error from the per-group variances, not the pooled rate
prop_se_diff_unpooled(control_conversions, control_visitors, test_conversions, test_visitors) ==
    FSqrt[FAdd[FMul[FMul[IntDiv[control_conversions, control_visitors],
                         FSub[One, IntDiv[control_conversions, control_visitors]]],
                    IntDiv[1, control_visitors]],
               FMul[FMul[IntDiv[test_conversions, test_visitors],
                         FSub[One, IntDiv[test_conversions, test_visitors]]],
                    IntDiv[1, test_visitors]]]]

\* line 59
prop_se_diff(control_conversions, control_visitors, test_conversions, test_visitors) ==
    LET pooled_rate == prop_pooled_rate(control_conversions, control_visitors,
                                        test_conversions, test_visitors)
    IN FSqrt[FMul[FMul[pooled_rate, FSub[One, pooled_rate]],
                  FAdd[IntDiv[1, control_visitors], IntDiv[1, test_visitors]]]]

\* line 60
prop_margin_error(se_diff, alpha) ==
    FMul[norm_ppf[FSub[One, FDiv[alpha, FromInt(2)]]], se_diff]

\* the lift without the test of control_rate > 0
prop_relative_lift_unguarded(control_rate, test_rate) ==
    FMul[FDiv[FSub[test_rate, control_rate], control_rate], FromInt(100)]

\* the lift taken relative to the test rate
prop_relative_lift_of_test(control_rate, test_rate) ==
    IF FGt[test_rate, Zero]
    THEN FMul[FDiv[FSub[test_rate, control_rate], test_rate], FromInt(100)]
    ELSE Zero

\* line 66
prop_relative_lift(control_rate, test_rate) ==
    IF FGt[control_rate, Zero]
    THEN FMul[FDiv[FSub[test_rate, control_rate], control_rate], FromInt(100)]
    ELSE Zero

\* line 69
prop_effect_size(diff, pooled_rate) ==
    FDiv[FAbs[diff], FSqrt[FMul[pooled_rate, FSub[One, pooled_rate]]]]

\* the comparison against the default level 0.05, whatever alpha is
is_significant_default_alpha(p_value, alpha) == FLt[p_value, Fin(50000)]

\* lines 73 and 154
is_significant(p_value, alpha) == FLt[p_value, alpha]

\* the interpretation with the two directions exchanged
prop_interpretation_reversed(significant, test_rate, control_rate, p_value) ==
    IF significant
    THEN IF FGt[control_rate, test_rate]
         THEN [template |-> "Test variant performs significantly better than control",
               p |-> Fmt[p_value, 4]]
         ELSE [template |-> "Test variant performs significantly worse than control",
               p |-> Fmt[p_value, 4]]
    ELSE [template |-> "No significant difference between variants",
          p |-> Fmt[p_value, 4]]

\* lines 92-98
prop_interpretation(significant, test_rate, control_rate, p_value) ==
    IF significant
    THEN IF FGt[test_rate, control_rate]
         THEN [template |-> "Test variant performs significantly better than control",
               p |-> Fmt[p_value, 4]]
         ELSE [template |-> "Test variant performs significantly worse than control",
               p |-> Fmt[p_value, 4]]
    ELSE [template |-> "No significant difference between variants",
          p |-> Fmt[p_value, 4]]

\* lines 76-100: the results dictionary, from the values of lines 47-73
prop_dictionary(control_conversions, control_visitors, test_conversions, test_visitors, alpha, control_rate, test_rate, ztest, pooled_rate, margin_error) ==
    [kind |-> "proportions",
     control_rate |-> control_rate,
     test_rate |-> test_rate,
     difference |-> FSub[test_rate, control_rate],
     relative_lift_percent |-> prop_relative_lift(control_rate, test_rate),
     z_statistic |-> ztest.zstat,
     p_value |-> ztest.pvalue,
     alpha |-> alpha,
     is_significant |-> is_significant(ztest.pvalue, alpha),
     confidence_interval |->
        <<FSub[FSub[test_rate, control_rate], margin_error],
          FAdd[FSub[test_rate, control_rate], margin_error]>>,
     statistical_power |->
        ttest_power(prop_effect_size(FSub[test_rate, control_rate], pooled_rate),
                    control_visitors + test_visitors, alpha),
     sample_sizes |-> [control |-> control_visitors, test |-> test_visitors],
     conversions |-> [control |-> control_conversions, test |-> test_conversions],
     interpretation |->
        prop_interpretation(is_significant(ztest.pvalue, alpha), test_rate,
                            control_rate, ztest.pvalue)]

\* lines 47-100: the results dictionary of an input that passed validation
prop_results(control_conversions, control_visitors, test_conversions, test_visitors, alpha) ==
    prop_dictionary(
        control_conversions, control_visitors, test_conversions, test_visitors,
        alpha,
        IntDiv[control_conversions, control_visitors],
        IntDiv[test_conversions, test_visitors],
        proportions_ztest(control_conversions, test_conversions,
                          control_visitors, test_visitors),
        prop_pooled_rate(control_conversions, control_visitors,
                         test_conversions, test_visitors),
        prop_margin_error(prop_se_diff(control_conversions, control_visitors,
                                       test_conversions, test_visitors), alpha))

\* lines 102-103: self.results = results; return results
prop_return(res) ==
    [raised |-> "", message |-> "", returned |-> res, self_results |-> res]

\* lines 47-103 on an input that passed validation; the divisions of lines
\* 48-49 are Python's, which raise on a zero divisor
prop_compute(self_results, control_conversions, control_visitors, test_conversions, test_visitors, alpha) ==
    IF control_visitors = 0 \/ test_visitors = 0
    THEN [raised |-> "ZeroDivisionError", message |-> "division by zero",
          returned |-> NoResult, self_results |-> self_results]
    ELSE prop_return(prop_results(control_conversions, control_visitors,
                                  test_conversions, test_visitors, alpha))

\* analyze_proportions clearing the slot before it validates
analyze_proportions_clearing(self_results, control_conversions, control_visitors, test_conversions, test_visitors, alpha) ==
    IF prop_validation(control_conversions, control_visitors,
                       test_conversions, test_visitors, alpha) # ""
    THEN [raised |-> "ValueError",
          message |-> prop_validation(control_conversions, control_visitors,
                                      test_conversions, test_visitors, alpha),
          returned |-> NoResult, self_results |-> NoResult]
    ELSE prop_compute(self_results, control_conversions, control_visitors,
                      test_conversions, test_visitors, alpha)

\* analyze_proportions returning its result without storing it
analyze_proportions_unsaved(self_results, control_conversions, control_visitors, test_conversions, test_visitors, alpha) ==
    IF prop_validation(control_conversions, control_visitors,
                       test_conversions, test_visitors, alpha) # ""
    THEN [raised |-> "ValueError",
          message |-> prop_validation(control_conversions, control_visitors,
                                      test_conversions, test_visitors, alpha),
          returned |-> NoResult, self_results |-> self_results]
    ELSE [raised |-> "", message |-> "",
          returned |-> prop_results(control_conversions, control_visitors,
                                    test_conversions, test_visitors, alpha),
          self_results |-> self_results]

\* the outcome of a call: what it raises or returns, and the slot afterwards
analyze_proportions(self_results, control_conversions, control_visitors, test_conversions, test_visitors, alpha) ==
    IF prop_validation(control_conversions, control_visitors,
                       test_conversions, test_visitors, alpha) # ""
    THEN [raised |-> "ValueError",
          message |-> prop_validation(control_conversions, control_visitors,
                                      test_conversions, test_visitors, alpha),
          returned |-> NoResult, self_results |-> self_results]
    ELSE prop_compute(self_results, control_conversions, control_visitors,
                      test_conversions, test_visitors, alpha)

(***************************************************************************)
(* ABTestAnalyzer.analyze_continuous                                       *)
(***************************************************************************)
RECURSIVE SumSeq(_)
SumSeq(s) == IF s = <<>> THEN 0 ELSE Head(s) + SumSeq(Tail(s))

\* np.mean of a sequence of whole numbers
np_mean(values) == IntDiv[SumSeq(values), Len(values)]

RECURSIVE SumSqDev(_, _)
SumSqDev(values, mean) ==
    IF values = <<>> THEN Zero
    ELSE FAdd[FSquare[FSub[FromInt(Head(values)), mean]], SumSqDev(Tail(values), mean)]

\* np.var(values, ddof=1) and np.std(values, ddof=1)
np_var(values) ==
    FDiv[SumSqDev(values, np_mean(values)), FromInt(Len(values) - 1)]
np_std(values) == FSqrt[np_var(values)]

\* the statistic and its two-sided p-value
ttest_finish[t \in Floats, df \in Int] == [statistic |-> t, pvalue |-> t_sf2[t, df]]

\* stats.ttest_ind(a, b), equal variances: the statistic is
\* (mean(a) - mean(b)) / sqrt(svar * (1/n1 + 1/n2)), svar the pooled
\* variance, and the p-value is two-sided with df = n1 + n2 - 2
ttest_ind(a, b) ==
    LET n1 == Len(a)
        n2 == Len(b)
        df == n1 + n2 - 2
        svar == FDiv[FAdd[FMul[FromInt(n1 - 1), np_var(a)],
                          FMul[FromInt(n2 - 1), np_var(b)]], FromInt(df)]
        denom == FSqrt[FMul[svar, FAdd[IntDiv[1, n1], IntDiv[1, n2]]]]
    IN ttest_finish[FDiv[FSub[np_mean(a), np_mean(b)], denom], df]

\* lines 131-133
cont_pooled_std(control_values, test_values) ==
    FSqrt[FDiv[FAdd[FMul[FromInt(Len(control_values) - 1),
                         FSquare[np_std(control_values)]],
                    FMul[FromInt(Len(test_values) - 1),
                         FSquare[np_std(test_values)]]],
               FromInt(Len(control_values) + Len(test_values) - 2)]]

\* line 137
cont_se_diff(control_values, test_values) ==
    FSqrt[FAdd[FDiv[FSquare[np_std(control_values)], FromInt(Len(control_values))],
               FDiv[FSquare[np_std(test_values)], FromInt(Len(test_values))]]]

\* lines 138-139
cont_t_critical(alpha, df) == t_ppf[FSub[One, FDiv[alpha, FromInt(2)]], df]

\* lines 161-167
cont_interpretation(significant, test_mean, control_mean, p_value) ==
    IF significant
    THEN IF FGt[test_mean, control_mean]
         THEN [template |-> "Test group has significantly higher values than control",
               p |-> Fmt[p_value, 4]]
         ELSE [template |-> "Test group has significantly lower values than control",
               p |-> Fmt[p_value, 4]]
    ELSE [template |-> "No significant difference between groups",
          p |-> Fmt[p_value, 4]]

\* Cohen's d with the difference taken as control - test
cont_cohens_d_reversed(test_mean, control_mean, pooled_std) ==
    FDiv[FSub[control_mean, test_mean], pooled_std]

\* line 134
cont_cohens_d(test_mean, control_mean, pooled_std) ==
    FDiv[FSub[test_mean, control_mean], pooled_std]

\* lines 145-169: the results dictionary, from the values of lines 118-143
cont_dictionary(control_values, test_values, alpha, ttest, control_mean, test_mean, control_std, test_std, pooled_std, margin_error) ==
    [kind |-> "continuous",
     control_mean |-> control_mean,
     test_mean |-> test_mean,
     control_std |-> control_std,
     test_std |-> test_std,
     difference |-> FSub[test_mean, control_mean],
     t_statistic |-> ttest.statistic,
     p_value |-> ttest.pvalue,
     alpha |-> alpha,
     is_significant |-> is_significant(ttest.pvalue, alpha),
     cohens_d |-> cont_cohens_d(test_mean, control_mean, pooled_std),
     confidence_interval |->
        <<FSub[FSub[test_mean, control_mean], margin_error],
          FAdd[FSub[test_mean, control_mean], margin_error]>>,
     sample_sizes |-> [control |-> Len(control_values), test |-> Len(test_values)],
     interpretation |->
        cont_interpretation(is_significant(ttest.pvalue, alpha), test_mean,
                            control_mean, ttest.pvalue)]

\* lines 118-169: the results dictionary
cont_results(control_values, test_values, alpha) ==
    cont_dictionary(
        control_values, test_values, alpha,
        ttest_ind(control_values, test_values),
        np_mean(control_values),
        np_mean(test_values),
        np_std(control_values),
        np_std(test_values),
        cont_pooled_std(control_values, test_values),
        FMul[cont_t_critical(alpha, Len(control_values) + Len(test_values) - 2),
             cont_se_diff(control_values, test_values)])

\* analyze_continuous storing its result, as analyze_proportions does
analyze_continuous_storing(self_results, control_values, test_values, alpha) ==
    [raised |-> "", message |-> "",
     returned |-> cont_results(control_values, test_values, alpha),
     self_results |-> cont_results(control_values, test_values, alpha)]

\* the outcome of a call: the slot is not assigned
analyze_continuous(self_results, control_values, test_values, alpha) ==
    [raised |-> "", message |-> "",
     returned |-> cont_results(control_values, test_values, alpha),
     self_results |-> self_results]

(***************************************************************************)
(* ABTestAnalyzer.sample_size_calculator                                   *)
(***************************************************************************)
\* np.ceil of a finite float, as a whole number
CeilInt(v) == -((-v) \div Scale)

\* the ceiling of the dividend alone, the division by the squared effect left out
CeilOfDividend(x, y) ==
    CASE IsNaN(x) -> [k |-> "nan", n |-> 0]
      [] IsInf(x) -> [k |-> "inf", n |-> 0]
      [] OTHER -> [k |-> "int", n |-> CeilInt(x.v)]

\* line 197-198: int(np.ceil(x / y)) of numpy floats, y >= 0; the quotient
\* is taken exactly, so that it may exceed the range of the fixed point
\* numbers: "nan" and "inf" are the quotients int() refuses
CeilOfQuotient(x, y) ==
    CASE IsNaN(x) \/ IsNaN(y) \/ (IsInf(x) /\ IsInf(y)) -> [k |-> "nan", n |-> 0]
      [] IsInf(x) -> [k |-> "inf", n |-> 0]
      [] IsInf(y) -> [k |-> "int", n |-> 0]
      [] y.v = 0 -> [k |-> IF x.v = 0 THEN "nan" ELSE "inf", n |-> 0]
      [] OTHER -> [k |-> "int", n |-> -((-x.v) \div y.v)]

\* lines 200-209
size_dictionary(n_per_group, baseline_rate, test_rate, minimum_detectable_effect, alpha, power, effect_size) ==
    [kind |-> "sample_size",
     sample_size_per_group |-> n_per_group,
     total_sample_size |-> n_per_group * 2,
     baseline_rate |-> baseline_rate,
     test_rate |-> test_rate,
     minimum_detectable_effect |-> minimum_detectable_effect,
     alpha |-> alpha,
     power |-> power,
     effect_size |-> effect_size]

\* lines 197-209, from the quotient of line 197-198: int() of an infinity
\* raises OverflowError and int() of a nan raises ValueError
size_return(self_results, n, baseline_rate, test_rate, minimum_detectable_effect, alpha, power, effect_size) ==
    CASE n.k = "nan" ->
            [raised |-> "ValueError",
             message |-> "cannot convert float NaN to integer",
             returned |-> NoResult, self_results |-> self_results]
      [] n.k = "inf" ->
            [raised |-> "OverflowError",
             message |-> "cannot convert float infinity to integer",
             returned |-> NoResult, self_results |-> self_results]
      [] OTHER ->
            [raised |-> "", message |-> "",
             returned |-> size_dictionary(n.n, baseline_rate, test_rate,
                                          minimum_detectable_effect, alpha, power,
                                          effect_size),
             self_results |-> self_results]

\* line 190
size_pooled_rate(baseline_rate, minimum_detectable_effect) ==
    FDiv[FAdd[baseline_rate, FAdd[baseline_rate, minimum_detectable_effect]], FromInt(2)]

\* line 191
size_effect_size(pooled_rate, minimum_detectable_effect) ==
    FDiv[FAbs[minimum_detectable_effect], FSqrt[FMul[pooled_rate, FSub[One, pooled_rate]]]]

\* line 197, the dividend: (z_alpha + z_beta)**2 * pooled_rate * (1 - pooled_rate)
size_dividend(pooled_rate, alpha, power) ==
    FMul[FMul[FSquare[FAdd[norm_ppf[FSub[One, FDiv[alpha, FromInt(2)]]], norm_ppf[power]]],
              pooled_rate],
         FSub[One, pooled_rate]]

\* lines 189-209: nothing is validated
sample_size_calculator(self_results, baseline_rate, minimum_detectable_effect, alpha, power) ==
    size_return(self_results,
                CeilOfQuotient(size_dividend(size_pooled_rate(baseline_rate,
                                                              minimum_detectable_effect),
                                             alpha, power),
                               FSquare[minimum_detectable_effect]),
                baseline_rate,
                FAdd[baseline_rate, minimum_detectable_effect],
                minimum_detectable_effect, alpha, power,
                size_effect_size(size_pooled_rate(baseline_rate, minimum_detectable_effect),
                                 minimum_detectable_effect))

(***************************************************************************)
(* ABTestAnalyzer.get_summary_report                                       *)
(***************************************************************************)
NoAnalysisMessage == "No analysis results available. Run an analysis first."

\* lines 216-243: the text, as the record of the values it embeds
format_report(r) ==
    [kind |-> "report",
     control_rate |-> <<Fmt[r.control_rate, 4], FmtPercent[r.control_rate]>>,
     test_rate |-> <<Fmt[r.test_rate, 4], FmtPercent[r.test_rate]>>,
     difference |-> Fmt[r.difference, 4],
     relative_lift_percent |-> [plus |-> TRUE, number |-> Fmt[r.relative_lift_percent, 2]],
     z_statistic |-> Fmt[r.z_statistic, 4],
     p_value |-> Fmt[r.p_value, 4],
     alpha |-> Fmt[r.alpha, 3],
     statistical_power |-> FmtPower(r.statistical_power),
     lower_bound |-> Fmt[r.confidence_interval[1], 4],
     upper_bound |-> Fmt[r.confidence_interval[2], 4],
     control_visitors |-> r.sample_sizes.control,
     test_visitors |-> r.sample_sizes.test,
     interpretation |-> r.interpretation]

\* the keys the report reads (lines 221-240)
HasReportKeys(r) == r.kind = "proportions"

\* get_summary_report without the test of line 213
get_summary_report_unguarded(self_results) ==
    IF HasReportKeys(self_results)
    THEN [raised |-> "", message |-> "",
          returned |-> format_report(self_results),
          self_results |-> self_results]
    ELSE [raised |-> "KeyError", message |-> "control_rate",
          returned |-> NoResult, self_results |-> self_results]

\* lines 211-243
get_summary_report(self_results) ==
    CASE self_results = NoResult ->
            [raised |-> "", message |-> "",
             returned |-> [kind |-> "message", text |-> NoAnalysisMessage],
             self_results |-> self_results]
      [] ~HasReportKeys(self_results) ->
            [raised |-> "KeyError", message |-> "control_rate",
             returned |-> NoResult, self_results |-> self_results]
      [] OTHER ->
            [raised |-> "", message |-> "",
             returned |-> format_report(self_results),
             self_results |-> self_results]

(***************************************************************************)
(* Inputs.                                                                 *)
(***************************************************************************)
\* significance levels: 0.01, 0.05, 0.10 and, outside (0,1), -0.05, 0, 1,
\* 1.5 and nan
ValidAlphas == {Fin(10000), Fin(50000), Fin(100000)}
InvalidAlphas == {Fin(-50000), Zero, One, Fin(1500000), NaN}
Alphas == ValidAlphas \cup InvalidAlphas

ProportionInputs ==
    [kind : {"proportions"},
     control_conversions : -1..(MaxVisitors + 1),
     control_visitors : 0..MaxVisitors,
     test_conversions : -1..(MaxVisitors + 1),
     test_visitors : 0..MaxVisitors,
     alpha : Alphas]

\* observations are whole numbers
Observations == {0, 1, 2}
Samples == UNION {[1..n -> Observations] : n \in 2..MaxLen}
ContinuousAlphas == {Fin(50000), Fin(100000)}
ContinuousInputs ==
    [kind : {"continuous"}, control_values : Samples, test_values : Samples,
     alpha : ContinuousAlphas]

\* the inputs of the engine runs
EngProportionInputs ==
    [kind : {"proportions"},
     control_conversions : 0..(EngVisitors + 1),
     control_visitors : 0..EngVisitors,
     test_conversions : 0..(EngVisitors + 1),
     test_visitors : 0..EngVisitors,
     alpha : {Zero, Fin(50000), Fin(100000)}]
EngSamples == {<<0, 1>>, <<1, 2>>, <<0, 1, 2>>}
EngContinuousInputs ==
    [kind : {"continuous"}, control_values : EngSamples, test_values : EngSamples,
     alpha : {Fin(50000)}]
EngSampleSizeInputs ==
    [kind : {"sample_size"},
     baseline_rate : {Fin(200000), Fin(500000)},
     minimum_detectable_effect : {Fin(-100000), Zero, Fin(100000)},
     alpha : {Fin(50000)},
     power : {Fin(800000)}]
NoInput == [kind |-> "none"]

\* example_basic_analysis (example_usage.py, lines 16-26): 120/2400 against
\* 150/2300 at the default alpha
ExampleProportionInput ==
    [kind |-> "proportions", control_conversions |-> 120, control_visitors |-> 2400,
     test_conversions |-> 150, test_visitors |-> 2300, alpha |-> Fin(50000)]

\* baseline rates 0.05, 0.1, 0.2, 0.5, 0.8; effects 0, +-0.01 and the
\* multiples of 0.05 of either sign; powers 0.8 and 0.9.  Every effect is a
\* multiple of 0.001, whose square the fixed point holds exactly.
EffectStep == Scale \div 20
SampleSizeEffects ==
    {Fin(k * EffectStep) : k \in (-MaxEffectSteps)..MaxEffectSteps}
        \cup {Fin(10000), Fin(-10000)}
SampleSizeInputs ==
    [kind : {"sample_size"},
     baseline_rate : {Fin(50000), Fin(100000), Fin(200000), Fin(500000), Fin(800000)},
     minimum_detectable_effect : SampleSizeEffects,
     alpha : ValidAlphas,
     power : {Fin(800000), Fin(900000)}]

(***************************************************************************)
(* The engine.                                                             *)
(***************************************************************************)
VARIABLES
    results,        \* self.results, the "last result" slot
    op,             \* the operation called last, "" before the first call
    outcome,        \* what that call raised, or returned
    last_success,   \* what the last analyze_proportions that returned, returned
    input,          \* a pure-function run: the arguments of its one call
    engine_of,      \* callers: the engine instance each caller calls
    slots,          \* callers: self.results of each engine instance
    returned_to,    \* callers: what analyze_proportions last returned to each
    shown_to        \* callers: the report each caller got from its last call

caller_vars == <<engine_of, slots, returned_to, shown_to>>
vars == <<results, op, outcome, last_success, input, engine_of, slots, returned_to, shown_to>>

\* no callers: the runs of one engine called by one caller
NoCallers ==
    /\ engine_of = <<>>
    /\ slots = <<>>
    /\ returned_to = <<>>
    /\ shown_to = <<>>

NoOutcome == [raised |-> "", message |-> "", returned |-> NoResult]
OutcomeOf(out) ==
    [raised |-> out.raised, message |-> out.message, returned |-> out.returned]

\* __init__ (line 21): self.results = {}
Init ==
    /\ results = NoResult
    /\ op = ""
    /\ outcome = NoOutcome
    /\ last_success = NoResult
    /\ input = NoInput
    /\ NoCallers

DoAnalyzeProportions(i) ==
    \E out \in {analyze_proportions(results, i.control_conversions, i.control_visitors,
                                     i.test_conversions, i.test_visitors, i.alpha)} :
       /\ results' = out.self_results
       /\ op' = "analyze_proportions"
       /\ outcome' = OutcomeOf(out)
       /\ last_success' = IF out.raised = "" THEN out.returned ELSE last_success

DoAnalyzeContinuous(i) ==
    \E out \in {analyze_continuous(results, i.control_values, i.test_values, i.alpha)} :
       /\ results' = out.self_results
       /\ op' = "analyze_continuous"
       /\ outcome' = OutcomeOf(out)
       /\ UNCHANGED last_success

DoSampleSizeCalculator(i) ==
    \E out \in {sample_size_calculator(results, i.baseline_rate,
                                        i.minimum_detectable_effect, i.alpha, i.power)} :
       /\ results' = out.self_results
       /\ op' = "sample_size_calculator"
       /\ outcome' = OutcomeOf(out)
       /\ UNCHANGED last_success

CallAnalyzeProportions ==
    /\ input = NoInput
    /\ \E i \in EngProportionInputs : DoAnalyzeProportions(i)
    /\ UNCHANGED <<input, caller_vars>>

CallAnalyzeContinuous ==
    /\ input = NoInput
    /\ \E i \in EngContinuousInputs : DoAnalyzeContinuous(i)
    /\ UNCHANGED <<input, caller_vars>>

CallSampleSizeCalculator ==
    /\ input = NoInput
    /\ \E i \in EngSampleSizeInputs : DoSampleSizeCalculator(i)
    /\ UNCHANGED <<input, caller_vars>>

CallGetSummaryReport ==
    /\ input = NoInput
    /\ \E out \in {get_summary_report(results)} :
          /\ results' = out.self_results
          /\ op' = "get_summary_report"
          /\ outcome' = OutcomeOf(out)
    /\ UNCHANGED <<last_success, input, caller_vars>>

Next ==
    \/ CallAnalyzeProportions
    \/ CallAnalyzeContinuous
    \/ CallSampleSizeCalculator
    \/ CallGetSummaryReport

Spec == Init /\ [][Next]_vars

(***************************************************************************)
(* Pure-function runs: one call of analyze_proportions, of                 *)
(* analyze_continuous or of sample_size_calculator, on a fresh engine,     *)
(* for every input of the bounds.                                          *)
(***************************************************************************)
InitAnalyses ==
    /\ results = NoResult
    /\ op = ""
    /\ outcome = NoOutcome
    /\ last_success = NoResult
    /\ input \in ProportionInputs \cup {ExampleProportionInput}
                \cup ContinuousInputs \cup SampleSizeInputs
    /\ NoCallers

RunAnalyzeProportions ==
    /\ op = ""
    /\ input.kind = "proportions"
    /\ DoAnalyzeProportions(input)
    /\ UNCHANGED <<input, caller_vars>>

RunAnalyzeContinuous ==
    /\ op = ""
    /\ input.kind = "continuous"
    /\ DoAnalyzeContinuous(input)
    /\ UNCHANGED <<input, caller_vars>>

RunSampleSizeCalculator ==
    /\ op = ""
    /\ input.kind = "sample_size"
    /\ DoSampleSizeCalculator(input)
    /\ UNCHANGED <<input, caller_vars>>

NextAnalyses ==
    \/ RunAnalyzeProportions
    \/ RunAnalyzeContinuous
    \/ RunSampleSizeCalculator

SpecAnalyses == InitAnalyses /\ [][NextAnalyses]_vars
(***************************************************************************)
(* Callers.  Two callers call analyze_proportions and get_summary_report,  *)
(* either on one engine instance they share or each on an instance of its  *)
(* own; a call is one step, and the calls of the two callers interleave.   *)
(***************************************************************************)
Callers == {"A", "B"}
Engines == {1, 2}

\* one instance for both callers, or one instance per caller
SharedEngine == [c \in Callers |-> 1]
OwnEngines == [c \in Callers |-> IF c = "A" THEN 1 ELSE 2]

\* what the callers analyze: 0/2 against 1/2, 1/2 against 2/2, 2/2 against
\* 0/2, and an input without visitors, which is rejected
CallerInputs ==
    {[kind |-> "proportions", control_conversions |-> c[1], control_visitors |-> c[2],
      test_conversions |-> c[3], test_visitors |-> c[4], alpha |-> Fin(50000)] :
        c \in {<<0, 2, 1, 2>>, <<1, 2, 2, 2>>, <<2, 2, 0, 2>>, <<0, 0, 0, 2>>}}

\* the caller's last call was not get_summary_report
NoReport == [kind |-> "none"]

\* every caller calls the first instance, whatever instance it was given
engine_used_by_anyone(c) == 1

\* the instance a call of c goes to (app.py keeps one per session)
engine_used_by(c) == engine_of[c]

InitCallers ==
    /\ results = NoResult
    /\ op = ""
    /\ outcome = NoOutcome
    /\ last_success = NoResult
    /\ input = NoInput
    /\ engine_of \in {SharedEngine, OwnEngines}
    /\ slots = [e \in Engines |-> NoResult]
    /\ returned_to = [c \in Callers |-> NoResult]
    /\ shown_to = [c \in Callers |-> NoReport]

CallerAnalyzeProportions(c) ==
    /\ \E i \in CallerInputs :
        \E out \in {analyze_proportions(slots[engine_used_by(c)],
                                        i.control_conversions, i.control_visitors,
                                        i.test_conversions, i.test_visitors, i.alpha)} :
           /\ slots' = [slots EXCEPT ![engine_used_by(c)] = out.self_results]
           /\ returned_to' = [returned_to EXCEPT
                                ![c] = IF out.raised = "" THEN out.returned ELSE @]
    /\ shown_to' = [shown_to EXCEPT ![c] = NoReport]
    /\ UNCHANGED <<results, op, outcome, last_success, input, engine_of>>

CallerGetSummaryReport(c) ==
    /\ \E out \in {get_summary_report(slots[engine_used_by(c)])} :
           /\ slots' = [slots EXCEPT ![engine_used_by(c)] = out.self_results]
           /\ shown_to' = [shown_to EXCEPT ![c] = out.returned]
    /\ UNCHANGED <<results, op, outcome, last_success, input, engine_of, returned_to>>

NextCallers ==
    \/ \E c \in Callers : CallerAnalyzeProportions(c)
    \/ \E c \in Callers : CallerGetSummaryReport(c)

SpecCallers == InitCallers /\ [][NextCallers]_vars

(***************************************************************************)
(* Properties.                                                             *)
(***************************************************************************)
\* the report of an engine whose slot is self_results: what the call raises
\* and the text it returns
ReportOf(self_results) ==
    [raised |-> get_summary_report(self_results).raised,
     returned |-> get_summary_report(self_results).returned]

\* the inputs the contract of analyze_proportions rejects
RejectedProportionInput(i) ==
    \/ i.control_visitors <= 0
    \/ i.test_visitors <= 0
    \/ i.control_conversions > i.control_visitors
    \/ i.test_conversions > i.test_visitors
    \/ IsNaN(i.alpha)
    \/ FLe[i.alpha, Zero]
    \/ FLe[One, i.alpha]

\* C1: analyze_proportions raises ValueError on every input with a visitor
\* count <= 0, with conversions above the visitors of their group, or with
\* an alpha that is not strictly between 0 and 1.
C1_InvalidInputRaisesValueError ==
    (op = "analyze_proportions" /\ RejectedProportionInput(input))
        => outcome.raised = "ValueError"

C1_Witness ==
    /\ op = "analyze_proportions"
    /\ input.control_visitors = 0
    /\ input.control_conversions = 0
    /\ input.alpha = Fin(50000)
    /\ outcome.raised = "ValueError"

\* C2: an analyze_proportions call that raises returns no result and leaves
\* the slot as it was, so that the report after it is the report before it.
C2_FailedCallLeavesSlot ==
    [][(op' = "analyze_proportions" /\ outcome'.raised # "")
        => /\ outcome'.returned = NoResult
           /\ results' = results
           /\ ReportOf(results') = ReportOf(results)]_vars

C2_Witness ==
    /\ op = "analyze_proportions"
    /\ outcome.raised = "ValueError"
    /\ outcome.returned = NoResult
    /\ results.kind = "proportions"

\* C3: the report embeds, value by value, what the most recent
\* analyze_proportions call that returned, returned.
C3_ReportEmbedsLastResult ==
    (op = "get_summary_report" /\ last_success # NoResult)
        => /\ outcome.raised = ""
           /\ outcome.returned.kind = "report"
           /\ outcome.returned.control_rate =
                <<Fmt[last_success.control_rate, 4],
                  Fmt[FMul[last_success.control_rate, FromInt(100)], 2]>>
           /\ outcome.returned.test_rate =
                <<Fmt[last_success.test_rate, 4],
                  Fmt[FMul[last_success.test_rate, FromInt(100)], 2]>>
           /\ outcome.returned.difference = Fmt[last_success.difference, 4]
           /\ outcome.returned.relative_lift_percent.number =
                Fmt[last_success.relative_lift_percent, 2]
           /\ outcome.returned.z_statistic = Fmt[last_success.z_statistic, 4]
           /\ outcome.returned.p_value = Fmt[last_success.p_value, 4]
           /\ outcome.returned.alpha = Fmt[last_success.alpha, 3]
           /\ outcome.returned.statistical_power =
                FmtPower(last_success.statistical_power)
           /\ outcome.returned.lower_bound =
                Fmt[last_success.confidence_interval[1], 4]
           /\ outcome.returned.upper_bound =
                Fmt[last_success.confidence_interval[2], 4]
           /\ outcome.returned.control_visitors = last_success.sample_sizes.control
           /\ outcome.returned.test_visitors = last_success.sample_sizes.test
           /\ outcome.returned.interpretation = last_success.interpretation

C3_Witness ==
    /\ op = "get_summary_report"
    /\ last_success # NoResult
    /\ outcome.returned.kind = "report"
    /\ outcome.returned.p_value = Fmt[last_success.p_value, 4]
    /\ last_success.control_rate # last_success.test_rate

\* C4: analyze_continuous and sample_size_calculator leave the slot, and so
\* the report, as they were; a step that changes the slot is a step of
\* analyze_proportions.
C4_OnlyProportionsWritesSlot ==
    [][/\ op' \in {"analyze_continuous", "sample_size_calculator"}
            => /\ results' = results
               /\ ReportOf(results') = ReportOf(results)
               /\ last_success = NoResult
                    => ReportOf(results').returned.kind = "message"
       /\ results' # results => op' = "analyze_proportions"]_vars

C4_Witness ==
    /\ op = "analyze_continuous"
    /\ outcome.returned.kind = "continuous"
    /\ results.kind = "proportions"

\* C5: in every reachable state get_summary_report raises nothing; it
\* returns the "no analysis" message exactly when no analyze_proportions
\* call has returned yet, and the formatted report otherwise; the slot is
\* empty or holds every key the report reads.
C5_ReportNeverRaises ==
    /\ ReportOf(results).raised = ""
    /\ (ReportOf(results).returned.kind = "message") <=> (last_success = NoResult)
    /\ (ReportOf(results).returned.kind = "report") <=> (last_success # NoResult)
    /\ ReportOf(results).returned.kind = "message"
            => ReportOf(results).returned.text = NoAnalysisMessage
    /\ results = NoResult \/ HasReportKeys(results)
    /\ op = "get_summary_report"
            => outcome = [raised |-> "", message |-> "",
                          returned |-> ReportOf(results).returned]

C5_Witness ==
    /\ op = "get_summary_report"
    /\ outcome.raised = ""
    /\ outcome.returned = [kind |-> "message", text |-> NoAnalysisMessage]
    /\ last_success = NoResult

\* a call of one of the two analyses that returned a result
AnalysisReturned ==
    /\ op \in {"analyze_proportions", "analyze_continuous"}
    /\ outcome.raised = ""

\* C6: the is_significant flag of a result of analyze_proportions or of
\* analyze_continuous is true exactly when its p_value is strictly below
\* its alpha.
C6_SignificantIffPBelowAlpha ==
    AnalysisReturned
        => /\ outcome.returned.is_significant \in BOOLEAN
           /\ outcome.returned.alpha = input.alpha
           /\ outcome.returned.is_significant
                <=> /\ IsFin(outcome.returned.p_value)
                    /\ outcome.returned.p_value.v < outcome.returned.alpha.v

C6_Witness ==
    /\ AnalysisReturned
    /\ outcome.returned.is_significant
    /\ outcome.returned.alpha = Fin(100000)
    /\ outcome.returned.p_value.v >= 50000
    /\ outcome.returned.p_value.v < 100000

\* the valid ProportionInput: conversions >= 0, visitors > 0, conversions
\* within the visitors, 0 < alpha < 1
ValidProportionInput(i) ==
    /\ i.kind = "proportions"
    /\ i.control_conversions >= 0
    /\ i.test_conversions >= 0
    /\ i.control_visitors > 0
    /\ i.test_visitors > 0
    /\ i.control_conversions <= i.control_visitors
    /\ i.test_conversions <= i.test_visitors
    /\ FLt[Zero, i.alpha]
    /\ FLt[i.alpha, One]

\* ci_lower <= 0 <= ci_upper
ContainsZero(ci) == FLe[ci[1], Zero] /\ FLe[Zero, ci[2]]

\* C7: on a valid input the interval of analyze_proportions contains zero
\* exactly when the result is not significant.
C7_ProportionIntervalDuality ==
    (op = "analyze_proportions" /\ ValidProportionInput(input))
        => /\ outcome.raised = ""
           /\ ContainsZero(outcome.returned.confidence_interval)
                <=> ~outcome.returned.is_significant

C7_Witness ==
    /\ op = "analyze_proportions"
    /\ ValidProportionInput(input)
    /\ outcome.raised = ""
    /\ outcome.returned.is_significant
    /\ ~ContainsZero(outcome.returned.confidence_interval)
    /\ input.control_visitors # input.test_visitors

\* C8: the interval of analyze_continuous contains zero exactly when the
\* result is not significant, whatever the group sizes and variances.
C8_ContinuousIntervalDuality ==
    (op = "analyze_continuous" /\ outcome.raised = "")
        => (ContainsZero(outcome.returned.confidence_interval)
                <=> ~outcome.returned.is_significant)

\* the input with the two groups exchanged
Swapped(i) ==
    IF i.kind = "proportions"
    THEN [i EXCEPT !.control_conversions = i.test_conversions,
                   !.control_visitors = i.test_visitors,
                   !.test_conversions = i.control_conversions,
                   !.test_visitors = i.control_visitors]
    ELSE [i EXCEPT !.control_values = i.test_values,
                   !.test_values = i.control_values]

\* what the analysis of the kind of i returns on i, on a fresh engine
ResultOn(i) ==
    IF i.kind = "proportions"
    THEN analyze_proportions(NoResult, i.control_conversions, i.control_visitors,
                             i.test_conversions, i.test_visitors, i.alpha)
    ELSE analyze_continuous(NoResult, i.control_values, i.test_values, i.alpha)

\* the z or t statistic of a result
Statistic(r) == IF r.kind = "proportions" THEN r.z_statistic ELSE r.t_statistic

\* r and s are results of exchanged groups
Mirrored(r, s) ==
    /\ s.difference = FNeg[r.difference]
    /\ Statistic(s) = FNeg[Statistic(r)]
    /\ s.confidence_interval =
            <<FNeg[r.confidence_interval[2]], FNeg[r.confidence_interval[1]]>>
    /\ s.p_value = r.p_value
    /\ s.is_significant = r.is_significant

\* C9: exchanging control and test at the same alpha negates the
\* difference and the statistic, exchanges the negated interval bounds, and
\* keeps p_value and is_significant.
C9_SwapSymmetry ==
    AnalysisReturned
        => /\ ResultOn(Swapped(input)).raised = ""
           /\ Mirrored(outcome.returned, ResultOn(Swapped(input)).returned)

C9_Witness ==
    /\ op = "analyze_proportions"
    /\ outcome.raised = ""
    /\ input.control_visitors # input.test_visitors
    /\ outcome.returned.difference.v > 0
    /\ outcome.returned.z_statistic.v < 0
    /\ ResultOn(Swapped(input)).returned.z_statistic.v > 0
    /\ ResultOn(Swapped(input)).returned.p_value = outcome.returned.p_value

\* 0 <= x <= 1, which no nan satisfies
InUnitInterval(x) == FLe[Zero, x] /\ FLe[x, One]

\* C10: on every valid input, those of pooled rate 0 or 1 included,
\* analyze_proportions returns rates in [0, 1] and a p_value in [0, 1].
C10_RatesAndPValueInUnitInterval ==
    (op = "analyze_proportions" /\ ValidProportionInput(input))
        => /\ outcome.raised = ""
           /\ InUnitInterval(outcome.returned.control_rate)
           /\ InUnitInterval(outcome.returned.test_rate)
           /\ InUnitInterval(outcome.returned.p_value)

\* a sample_size_calculator call that returned a plan
SizeReturned == op = "sample_size_calculator" /\ outcome.raised = ""

\* the sample size per group for the effect m, everything else as in i
SizeFor(i, m) ==
    sample_size_calculator(NoResult, i.baseline_rate, m, i.alpha, i.power)
        .returned.sample_size_per_group

\* the test rate baseline + m is a rate
TestRateInUnitInterval(i, m) ==
    InUnitInterval(FAdd[i.baseline_rate, m])

\* m1 and m2 are non-zero effects of one sign
SameSign(m1, m2) == m1.v * SignInt(m2.v) > 0

\* C11 as stated: for non-zero effects m1, m2 of either sign with
\* |m1| <= |m2|, everything else fixed, N(m1) >= N(m2).
C11_MonotoneOverSignedEffects ==
    (SizeReturned /\ input.minimum_detectable_effect # Zero)
        => \A m2 \in SampleSizeEffects \ {Zero} :
              AbsInt(input.minimum_detectable_effect.v) <= AbsInt(m2.v)
                => outcome.returned.sample_size_per_group >= SizeFor(input, m2)

\* C11 amended: for non-zero effects m1, m2 of the same sign whose test
\* rates baseline + m lie in [0, 1], |m1| <= |m2| gives N(m1) >= N(m2).
C11_MonotoneOverEffectsOfOneSign ==
    (SizeReturned /\ input.minimum_detectable_effect # Zero
        /\ TestRateInUnitInterval(input, input.minimum_detectable_effect))
        => \A m2 \in SampleSizeEffects \ {Zero} :
              (/\ SameSign(input.minimum_detectable_effect, m2)
               /\ TestRateInUnitInterval(input, m2)
               /\ AbsInt(input.minimum_detectable_effect.v) <= AbsInt(m2.v))
                => outcome.returned.sample_size_per_group >= SizeFor(input, m2)

C11_Witness ==
    /\ SizeReturned
    /\ input.baseline_rate = Fin(500000)
    /\ input.minimum_detectable_effect = Fin(-100000)
    /\ TestRateInUnitInterval(input, Fin(-300000))
    /\ outcome.returned.sample_size_per_group > SizeFor(input, Fin(-300000))
    /\ SizeFor(input, Fin(-300000)) > 0

\* the SampleSizePlanInput: baseline_rate, alpha and power in (0, 1), a
\* non-zero effect
SampleSizePlanInput(i) ==
    /\ i.kind = "sample_size"
    /\ FLt[Zero, i.baseline_rate] /\ FLt[i.baseline_rate, One]
    /\ i.minimum_detectable_effect # Zero
    /\ FLt[Zero, i.alpha] /\ FLt[i.alpha, One]
    /\ FLt[Zero, i.power] /\ FLt[i.power, One]

\* C12: on every SampleSizePlanInput sample_size_calculator returns a
\* positive sample_size_per_group and twice it as total_sample_size.
C12_PositiveSizeAndDoubleTotal ==
    (op = "sample_size_calculator" /\ SampleSizePlanInput(input))
        => /\ outcome.raised = ""
           /\ outcome.returned.sample_size_per_group > 0
           /\ outcome.returned.total_sample_size
                = 2 * outcome.returned.sample_size_per_group

\* C13: with a zero effect sample_size_calculator raises a validation
\* error (ValueError, or ZeroDivisionError for the undefined division) and
\* returns no plan.
C13_ZeroEffectIsValidationError ==
    (op = "sample_size_calculator" /\ input.minimum_detectable_effect = Zero)
        => /\ outcome.raised \in {"ValueError", "ZeroDivisionError"}
           /\ outcome.returned = NoResult

\* an analyze_proportions call that returned a result
ProportionsReturned == op = "analyze_proportions" /\ outcome.raised = ""

\* C14: a defined, non-zero z_statistic of analyze_proportions has the sign
\* of the returned difference test_rate - control_rate.
C14_StatisticHasSignOfDifference ==
    (ProportionsReturned /\ IsFin(outcome.returned.z_statistic)
        /\ outcome.returned.z_statistic.v # 0)
        => SignInt(outcome.returned.z_statistic.v)
                = SignInt(outcome.returned.difference.v)

\* C15: relative_lift_percent is (test_rate - control_rate) / control_rate
\* * 100 when control_rate > 0, and 0 when control_rate = 0; a valid input
\* without control conversions raises nothing.
C15_RelativeLift ==
    /\ ProportionsReturned
        => /\ outcome.returned.control_rate.v > 0
                => outcome.returned.relative_lift_percent
                    = FMul[FDiv[FSub[outcome.returned.test_rate,
                                     outcome.returned.control_rate],
                                outcome.returned.control_rate], FromInt(100)]
           /\ outcome.returned.control_rate.v = 0
                => outcome.returned.relative_lift_percent = Zero
    /\ (op = "analyze_proportions" /\ ValidProportionInput(input)
            /\ input.control_conversions = 0)
        => /\ outcome.raised = ""
           /\ outcome.returned.relative_lift_percent = Zero

C15_Witness ==
    /\ ProportionsReturned
    /\ input.control_conversions = 0
    /\ input.test_conversions > 0
    /\ outcome.returned.test_rate.v > 0
    /\ outcome.returned.relative_lift_percent = Zero

\* C16: 120/2400 against 150/2300 at alpha 0.05 gives control_rate 0.05,
\* test_rate 0.06522 and a lift of +30.43 after rounding, p_value < 0.05,
\* a significant result and the "better" interpretation.
C16_ExampleScenario ==
    (op = "analyze_proportions" /\ input = ExampleProportionInput)
        => /\ outcome.raised = ""
           /\ outcome.returned.control_rate = Fin(50000)
           /\ Fmt[outcome.returned.test_rate, 5]
                = [text |-> "number", neg |-> FALSE, digits |-> 5, units |-> 6522]
           /\ Fmt[outcome.returned.relative_lift_percent, 2]
                = [text |-> "number", neg |-> FALSE, digits |-> 2, units |-> 3043]
           /\ IsFin(outcome.returned.p_value)
           /\ outcome.returned.p_value.v < 50000
           /\ outcome.returned.is_significant
           /\ outcome.returned.interpretation.template
                = "Test variant performs significantly better than control"

C16_Witness ==
    /\ ProportionsReturned
    /\ input = ExampleProportionInput
    /\ outcome.returned.sample_sizes = [control |-> 2400, test |-> 2300]
    /\ outcome.returned.is_significant

\* the three templates of an analysis: better / higher, worse / lower, none
Templates(kind) ==
    IF kind = "proportions"
    THEN <<"Test variant performs significantly better than control",
           "Test variant performs significantly worse than control",
           "No significant difference between variants">>
    ELSE <<"Test group has significantly higher values than control",
           "Test group has significantly lower values than control",
           "No significant difference between groups">>

C19_NegativeConversionsRejected ==
    /\ ProportionsReturned
        => /\ InUnitInterval(outcome.returned.control_rate)
           /\ InUnitInterval(outcome.returned.test_rate)
    /\ (op = "analyze_proportions"
            /\ (input.control_conversions < 0 \/ input.test_conversions < 0))
        => /\ outcome.raised = "ValueError"
           /\ results = NoResult

\* the pooled standard deviation of the samples of i is defined and not 0
NonZeroPooledStd(i) ==
    /\ IsFin(cont_pooled_std(i.control_values, i.test_values))
    /\ cont_pooled_std(i.control_values, i.test_values).v # 0

\* C20: with a non-zero pooled standard deviation analyze_continuous
\* returns a finite t_statistic, a p_value in [0, 1] and a cohens_d of the
\* sign of difference = test_mean - control_mean, 0 exactly when the means
\* are equal.
C20_ContinuousResultDefined ==
    (op = "analyze_continuous" /\ outcome.raised = "" /\ NonZeroPooledStd(input))
        => /\ IsFin(outcome.returned.t_statistic)
           /\ InUnitInterval(outcome.returned.p_value)
           /\ outcome.returned.difference
                = FSub[outcome.returned.test_mean, outcome.returned.control_mean]
           /\ IsFin(outcome.returned.cohens_d)
           /\ SignInt(outcome.returned.cohens_d.v)
                = SignInt(outcome.returned.difference.v)
           /\ outcome.returned.cohens_d.v = 0
                <=> outcome.returned.test_mean = outcome.returned.control_mean

C20_Witness ==
    /\ op = "analyze_continuous"
    /\ outcome.raised = ""
    /\ NonZeroPooledStd(input)
    /\ Len(input.control_values) # Len(input.test_values)
    /\ outcome.returned.difference.v < 0
    /\ outcome.returned.cohens_d.v < 0
    /\ outcome.returned.t_statistic.v > 0

\* the text get_summary_report gives for the result r, or for no result
ReportFor(r) ==
    IF r = NoResult
    THEN [kind |-> "message", text |-> NoAnalysisMessage]
    ELSE format_report(r)

\* C18: with one engine per caller, the report a caller gets is the report
\* of the result its own analyze_proportions call last returned; with one
\* shared engine (the witness) caller A, after A.analyze_proportions,
\* B.analyze_proportions, A.get_summary_report, holds the report of B's
\* result and not that of its own.
C18_OwnEngineShowsOwnResult ==
    engine_of = OwnEngines
        => \A c \in Callers :
              shown_to[c] # NoReport => shown_to[c] = ReportFor(returned_to[c])

C18_Witness ==
    /\ engine_of = SharedEngine
    /\ returned_to["A"] # NoResult
    /\ returned_to["B"] # NoResult
    /\ shown_to["A"] = format_report(returned_to["B"])
    /\ shown_to["A"] # format_report(returned_to["A"])
====
